---- MODULE Spec2Model ----
(***************************************************************************)
(* android-devkit: the adb command executor (AdbClient.exec), the logcat   *)
(* stream engine (LogcatStream) with its line parser, and the bounded      *)
(* entry buffer of the logcat view (LogcatTreeProvider).                   *)
(*                                                                         *)
(* Text is a sequence of one-character strings, so that splitting,         *)
(* trimming and the regular expression of the line parser are computed     *)
(* character by character as the code computes them.  What a subprocess    *)
(* writes is a sequence of bytes: an ASCII byte is written as its          *)
(* character, and the two bytes of one two-byte UTF-8 character have       *)
(* names of their own.                                                     *)
(***************************************************************************)
EXTENDS Integers, Sequences, FiniteSets, TLC

\* null and undefined of the source: a value equal to no handle, entry or string
Null == [null |-> TRUE]

\* a string that may be absent is a record when present, so that it compares with Null
Text(t) == [text |-> t]

Min(a, b) == IF a < b THEN a ELSE b

(***************************************************************************)
(* Characters                                                              *)
(***************************************************************************)
NL == "\n"
Digit == {"0", "1", "2", "3", "4", "5", "6", "7", "8", "9"}
\* \s on a line that holds no "\n"
WS == {" ", "\t", "\r"}
\* what . of a JavaScript regular expression does not match
LineTerminator == {"\n", "\r"}
LevelChar == {"V", "D", "I", "W", "E", "F", "S"}

\* the UTF-8 bytes of U+00E9, the character they decode to, and the
\* replacement character that stands for bytes that decode to nothing
LeadByte == "C3"
ContByte == "A9"
EAcute == "U+00E9"
Replacement == "U+FFFD"

\* Buffer.prototype.toString(): UTF-8 decoding of one chunk on its own
toString(bytes) ==
    LET decoded ==
            [i \in 1..Len(bytes) |->
                IF bytes[i] = LeadByte
                THEN IF i < Len(bytes) /\ bytes[i + 1] = ContByte THEN EAcute ELSE Replacement
                ELSE IF bytes[i] = ContByte
                THEN IF i > 1 /\ bytes[i - 1] = LeadByte THEN "" ELSE Replacement
                ELSE bytes[i]]
    IN  SelectSeq(decoded, LAMBDA ch : ch # "")

DigitVal(c) ==
    CASE c = "0" -> 0 [] c = "1" -> 1 [] c = "2" -> 2 [] c = "3" -> 3
      [] c = "4" -> 4 [] c = "5" -> 5 [] c = "6" -> 6 [] c = "7" -> 7
      [] c = "8" -> 8 [] c = "9" -> 9

\* parseInt(digits, 10) on a non-empty run of decimal digits
RECURSIVE parseInt(_)
parseInt(ds) ==
    IF ds = << >> THEN 0
    ELSE 10 * parseInt(SubSeq(ds, 1, Len(ds) - 1)) + DigitVal(ds[Len(ds)])

\* first index >= i of s that holds no character of set cls (Len(s)+1 if none)
RECURSIVE SkipClass(_, _, _)
SkipClass(s, i, cls) ==
    IF i <= Len(s) /\ s[i] \in cls THEN SkipClass(s, i + 1, cls) ELSE i

\* first index >= i of s that holds character c (Len(s)+1 if none)
IndexOf(s, c, i) ==
    LET hits == {k \in i..Len(s) : s[k] = c}
    IN  IF hits = {} THEN Len(s) + 1 ELSE CHOOSE k \in hits : \A j \in hits : k <= j

\* last index <= i of s that holds no whitespace (0 if none)
RECURSIVE LastNonWS(_, _)
LastNonWS(s, i) ==
    IF i >= 1 /\ s[i] \in WS THEN LastNonWS(s, i - 1) ELSE i

AllIn(s, lo, hi, cls) == \A k \in lo..hi : k <= Len(s) /\ s[k] \in cls

\* last index <= i of s that holds no character of set cls (0 if none)
RECURSIVE LastOutside(_, _, _)
LastOutside(s, i, cls) ==
    IF i >= 1 /\ s[i] \in cls THEN LastOutside(s, i - 1, cls) ELSE i

\* String.prototype.trim
trim(s) ==
    LET a == SkipClass(s, 1, WS \cup {NL})
        b == LastOutside(s, Len(s), WS \cup {NL})
    IN  IF a > Len(s) THEN << >> ELSE SubSeq(s, a, b)

\* a number is a record, so that it compares with NaN
Number(n) == [num |-> n]
NaN == [nan |-> TRUE]

\* parseInt(s, 10): leading whitespace and a sign are skipped, the digits
\* that follow are read, and without a digit the result is NaN
parseInt10(s) ==
    LET a      == SkipClass(s, 1, WS \cup {NL})
        signed == a <= Len(s) /\ s[a] \in {"-", "+"}
        b      == IF signed THEN a + 1 ELSE a
        c      == SkipClass(s, b, Digit)
    IN  IF c = b THEN NaN
        ELSE IF signed /\ s[a] = "-" THEN Number(0 - parseInt(SubSeq(s, b, c - 1)))
        ELSE Number(parseInt(SubSeq(s, b, c - 1)))

\* first index >= i of s that holds a character of set cls (Len(s)+1 if none)
RECURSIVE SkipOutside(_, _, _)
SkipOutside(s, i, cls) ==
    IF i <= Len(s) /\ s[i] \notin cls THEN SkipOutside(s, i + 1, cls) ELSE i

\* String.prototype.startsWith
startsWith(s, prefix) ==
    Len(prefix) <= Len(s) /\ SubSeq(s, 1, Len(prefix)) = prefix

(***************************************************************************)
(* LOG_LEVEL_PRIORITY and the line parser                                  *)
(***************************************************************************)
LOG_LEVEL_PRIORITY(l) ==
    CASE l = "V" -> 0 [] l = "D" -> 1 [] l = "I" -> 2 [] l = "W" -> 3
      [] l = "E" -> 4 [] l = "F" -> 5 [] l = "S" -> 6

\* ^(\d{2}-\d{2})\s+(\d{2}:\d{2}:\d{2}\.\d{3})\s+ : the index after it, 0 on mismatch
MatchStamp(s) ==
    LET t == SkipClass(s, 6, WS)
        e == SkipClass(s, t + 12, WS)
    IN  IF /\ AllIn(s, 1, 2, Digit) /\ AllIn(s, 3, 3, {"-"}) /\ AllIn(s, 4, 5, Digit)
           /\ t > 6
           /\ AllIn(s, t, t + 1, Digit) /\ AllIn(s, t + 2, t + 2, {":"})
           /\ AllIn(s, t + 3, t + 4, Digit) /\ AllIn(s, t + 5, t + 5, {":"})
           /\ AllIn(s, t + 6, t + 7, Digit) /\ AllIn(s, t + 8, t + 8, {"."})
           /\ AllIn(s, t + 9, t + 11, Digit)
           /\ e > t + 12
        THEN e ELSE 0

\* (\d+)\s+ at index i: the index after it, 0 on mismatch
MatchNumber(s, i) ==
    LET d == SkipClass(s, i, Digit)
        e == SkipClass(s, d, WS)
    IN  IF i > 0 /\ d > i /\ e > d THEN e ELSE 0

\* parseLogcatLine: the entry of a line in threadtime format, Null on mismatch.
\* After the level, \s+([^:]+?)\s*: can only end at the first colon; the lazy
\* tag is what lies between the leading and the trailing whitespace before it
\* (one whitespace character when there is nothing else, none to give: mismatch).
parseLogcatLine(line, currentYear) ==
    LET p  == MatchStamp(line)
        q  == MatchNumber(line, p)
        l  == MatchNumber(line, q)
        a  == l + 1
        c  == IndexOf(line, ":", a)
        w  == SkipClass(line, a, WS)
        z  == LastNonWS(line, c - 1)
        m  == SkipClass(line, c + 1, WS)
        ts == SkipClass(line, 6, WS)
    IN  IF /\ p > 0 /\ q > 0 /\ l > 0
           /\ l <= Len(line) /\ line[l] \in LevelChar
           /\ a <= Len(line) /\ line[a] \in WS
           /\ c <= Len(line)
           /\ (w < c \/ c - a >= 2)
           /\ \A k \in m..Len(line) : line[k] \notin LineTerminator
        THEN [timestamp |-> <<currentYear, SubSeq(line, 1, 5), SubSeq(line, ts, ts + 11)>>,
              pid       |-> parseInt(SubSeq(line, p, SkipClass(line, p, Digit) - 1)),
              tid       |-> parseInt(SubSeq(line, q, SkipClass(line, q, Digit) - 1)),
              level     |-> line[l],
              tag       |-> IF w < c THEN SubSeq(line, w, z) ELSE << >>,
              message   |-> SubSeq(line, m, Len(line))]
        ELSE Null

(***************************************************************************)
(* Bounds and the log text the subprocesses write                          *)
(***************************************************************************)
\* lines of a text fed to one session whose cuts are all explored
MaxLines == 2
\* subprocesses one LogcatStream spawns
MaxSpawns == 2
\* characters of one stdout chunk where the life cycle is explored
ChunkLen == 20

\* largest configured capacity of the entry buffer
MaxCap == 2
\* entries accepted by the entry buffer between two clears
MaxPush == 4
\* calls of clear()
MaxClears == 1

\* tags given to one LogcatStream
MaxTags == 2
\* times the year changes while a stream runs
MaxNewYears == 1

\* stdout chunks one exec subprocess writes
MaxOut == 2
\* devices in one listing
MaxDevices == 2

Stamp ==
    <<"0", "1", "-", "1", "0", " ", "1", "2", ":", "3", "4", ":", "5", "6", ".", "7", "8", "9">>
LineDebug == Stamp \o <<" ", "1", " ", "2", " ", "D", " ", "T", "a", ":", " ", "h">>
LineError == Stamp \o <<" ", "1", " ", "3", " ", "E", " ", "N", " ", ":", "a", ":", LeadByte, ContByte>>
LineNoise == <<"-", "-", " ", "x">>
LineInfo == Stamp \o <<" ", "1", " ", "4", " ", "I", " ", "n", "e", "t", ":", " ", "U", "p">>
LineBlank == <<" ">>
LinePool == {LineDebug, LineError, LineNoise}

\* the texts of 1..n newline-terminated lines of the pool
RECURSIVE TextsOf(_)
TextsOf(n) ==
    IF n = 0 THEN {<< >>}
    ELSE LET shorter == TextsOf(n - 1)
         IN  shorter \cup {t \o l \o <<NL>> : t \in shorter, l \in LinePool}

SplitTexts == TextsOf(MaxLines) \ {<< >>}
\* lines in and out of the grammar: an empty line, a blank line, a line of
\* another format and a log line
NoisePool == {<< >>, LineBlank, LineNoise, LineDebug}
RECURSIVE NoiseTextsOf(_)
NoiseTextsOf(n) ==
    IF n = 0 THEN {<< >>}
    ELSE LET shorter == NoiseTextsOf(n - 1)
         IN  shorter \cup {t \o l \o <<NL>> : t \in shorter, l \in NoisePool}
NoiseTexts == NoiseTextsOf(MaxLines) \ {<< >>}
\* a blank line and a log line: the first chunk of ChunkLen characters ends inside the log line
LifeTexts == {LineBlank \o <<NL>> \o LineError \o <<NL>>}
\* what a spawned subprocess does if left alone: the bytes it writes to
\* stdout, the chunks it writes to stderr, and whether the binary could not
\* be spawned at all
Script(out, err, failed) == [out |-> out, err |-> err, failed |-> failed]
StderrChunk == <<"n", "o">>
SplitScripts == {Script(t, << >>, FALSE) : t \in SplitTexts}
NoiseScripts == {Script(t, << >>, FALSE) : t \in NoiseTexts}
\* a line written twice
ClockScripts == {Script(l \o <<NL>> \o l \o <<NL>>, << >>, FALSE) : l \in LinePool}
\* a log line stamped with the day before that of the other lines, and the
\* texts in which the lines come in either order of their timestamps
LineOlder ==
    <<"0", "1", "-", "0", "9">> \o SubSeq(Stamp, 6, Len(Stamp))
        \o <<" ", "1", " ", "5", " ", "W", " ", "T", "b", ":", " ", "o">>
PipePool == {LineDebug, LineOlder}
RECURSIVE PipeTextsOf(_)
PipeTextsOf(n) ==
    IF n = 0 THEN {<< >>}
    ELSE LET shorter == PipeTextsOf(n - 1)
         IN  shorter \cup {t \o l \o <<NL>> : t \in shorter, l \in PipePool}
PipeScripts == {Script(t, << >>, FALSE) : t \in PipeTextsOf(MaxLines) \ {<< >>}}
LifeScripts == {Script(t, << >>, FALSE) : t \in LifeTexts}
FaultScripts ==
    {Script(t, <<StderrChunk>>, FALSE) : t \in LifeTexts} \cup {Script(<< >>, << >>, TRUE)}
Years == {2026}
\* an exit code is a record, so that it compares with Null
Code(n) == [code |-> n]
ExitCodes == {Code(0), Code(1)}

(***************************************************************************)
(* State                                                                   *)
(***************************************************************************)
VARIABLES
    \* LogcatStream
    process,        \* this.process: Null or the handle of a spawned subprocess
    buffer,         \* this.buffer: the partial line kept between chunks
    minLevel,       \* this.minLevel
    serial, tags,   \* this.serial (Null when not given), this.tags
    events,         \* what the stream has emitted, in order
    \* the subprocesses spawned by the stream, by handle id
    procs,
    \* new Date().getFullYear()
    currentYear,
    \* history: all bytes received on stdout, in order; the text handed to
    \* handleData so far, chunk after chunk; the last call of start or stop
    \* with its result, or "event" after a handler or an exit; whether some
    \* chunk ended inside a line
    fed, received, lastOp, cutInLine,
    \* LogcatTreeProvider
    entries,        \* this.entries: the entry buffer
    maxEntries,     \* this.maxEntries, read from the configuration once
    filter,         \* this.filter: Null (undefined) or Text of a string
    viewMinLevel,   \* this.minLevel of the provider
    clears,         \* the calls of clear(): the promise and the "logcat -c" subprocess of each
    \* history: the entries that passed the filters since the last clear; the
    \* last call of addEntry under the present filters, with its outcome
    accepted, arrival,
    \* AdbClient.exec: per call, the closure of the promise executor and its subprocess
    calls,
    \* AdbService.getDevices: where the one call stands (idle, listing,
    \* awaiting, resolved, rejected), the stdout of "adb devices -l", the
    \* devices listed, the index of the device the loop is at, deviceInfos,
    \* and per device the promises of its three queries
    listPc, listing, devices, idx, deviceInfos, queries

streamVars == <<process, buffer, minLevel, serial, tags, events, procs, currentYear, fed, received, lastOp, cutInLine>>
viewVars == <<entries, maxEntries, filter, viewMinLevel, clears, accepted, arrival>>
execVars == <<calls>>
listVars == <<listPc, listing, devices, idx, deviceInfos, queries>>
vars == <<streamVars, viewVars, execVars, listVars>>

Handle(n) == [id |-> n]
Event(t, a) == [type |-> t, arg |-> a]
Op(o, r) == [op |-> o, res |-> r]

(***************************************************************************)
(* LogcatStream                                                            *)
(***************************************************************************)
\* String.prototype.split("\n")
RECURSIVE split(_)
split(s) ==
    LET i == IndexOf(s, NL, 1)
    IN  IF i > Len(s) THEN <<s>>
        ELSE <<SubSeq(s, 1, i - 1)>> \o split(SubSeq(s, i + 1, Len(s)))

shouldEmit(entry, lvl) ==
    ~ (LOG_LEVEL_PRIORITY(entry.level) < LOG_LEVEL_PRIORITY(lvl))

\* the for loop of handleData: the entries of the complete lines, in order
RECURSIVE EntriesOf(_, _, _)
EntriesOf(lines, lvl, year) ==
    IF lines = << >> THEN << >>
    ELSE LET line  == Head(lines)
             entry == parseLogcatLine(line, year)
             rest  == EntriesOf(Tail(lines), lvl, year)
         IN  IF trim(line) = << >> THEN rest
             ELSE IF entry # Null /\ shouldEmit(entry, lvl) THEN <<entry>> \o rest
             ELSE rest

\* a mutant of handleData: the loop ends at the first line that is blank or
\* does not parse (break for continue)
handleDataStopsAtNoise(buf, data, lvl, year) ==
    LET lines == split(buf \o data)
        done  == SubSeq(lines, 1, Len(lines) - 1)
        bad   == {i \in 1..Len(done) : parseLogcatLine(done[i], year) = Null}
        upto  == IF bad = {} THEN Len(done)
                 ELSE (CHOOSE i \in bad : \A j \in bad : i <= j) - 1
    IN  [buffer  |-> lines[Len(lines)],
         entries |-> EntriesOf(SubSeq(done, 1, upto), lvl, year)]

\* a mutant of handleData: the last piece is not taken off the lines, and
\* the buffer keeps all it was given
handleDataKeepsAll(buf, data, lvl, year) ==
    LET lines == split(buf \o data)
    IN  [buffer  |-> buf \o data,
         entries |-> EntriesOf(SubSeq(lines, 1, Len(lines) - 1), lvl, year)]

\* handleData: the new this.buffer and the entries emitted
handleData(buf, data, lvl, year) ==
    LET lines == split(buf \o data)
    IN  [buffer  |-> lines[Len(lines)],
         entries |-> EntriesOf(SubSeq(lines, 1, Len(lines) - 1), lvl, year)]

EntryEvents(es) == [i \in 1..Len(es) |-> Event("entry", es[i])]

isRunning == process # Null

\* the options a stream may be built with: no serial, an empty one or one of
\* a device; the lists of at most MaxTags tags
Serials == {Null, Text(<< >>), Text(<<"h", ":", "5", "5", "5", "5">>)}
RECURSIVE TagListsOf(_)
TagListsOf(n) ==
    IF n = 0 THEN {<< >>}
    ELSE LET shorter == TagListsOf(n - 1)
         IN  shorter \cup {Append(l, t) : l \in shorter, t \in {<<"N", "e", "t">>, <<"a">>}}
TagLists == TagListsOf(MaxTags)

\* a mutant of args: the tags without the directive that silences the rest
argsNoSilence(ser, tgs, lvl) ==
    (IF ser # Null /\ ser.text # << >> THEN <<<<"-", "s">>, ser.text>> ELSE << >>)
        \o <<<<"l", "o", "g", "c", "a", "t">>, <<"-", "v">>, <<"t", "h", "r", "e", "a", "d", "t", "i", "m", "e">>>>
        \o [i \in 1..Len(tgs) |-> tgs[i] \o <<":", lvl>>]

\* args of start(): -s serial when a serial is set, logcat -v threadtime,
\* and with tags one TAG:LEVEL each and "*:S"
args(ser, tgs, lvl) ==
    (IF ser # Null /\ ser.text # << >> THEN <<<<"-", "s">>, ser.text>> ELSE << >>)
        \o <<<<"l", "o", "g", "c", "a", "t">>, <<"-", "v">>, <<"t", "h", "r", "e", "a", "d", "t", "i", "m", "e">>>>
        \o (IF Len(tgs) > 0
            THEN [i \in 1..Len(tgs) |-> tgs[i] \o <<":", lvl>>] \o <<<<"*", ":", "S">>>>
            ELSE << >>)

\* spawn(this.adbPath, args): the subprocess; one that could not be spawned
\* is never alive, and its 'error' event is still to come
spawn(argv, script) ==
    [args |-> argv, alive |-> ~ script.failed, closed |-> FALSE, out |-> script.out, err |-> script.err,
     failed |-> script.failed, errored |-> FALSE, kills |-> 0, code |-> Null]

\* a mutant of start: 'start' is not emitted
startSilent(scripts) ==
    IF process # Null
    THEN /\ lastOp' = Op("start", "Logcat stream already running")
         /\ UNCHANGED <<process, buffer, minLevel, serial, tags, events, procs, currentYear, fed, received, cutInLine>>
    ELSE /\ Len(procs) < MaxSpawns
         /\ \E script \in scripts : procs' = Append(procs, spawn(args(serial, tags, minLevel), script))
         /\ process' = Handle(Len(procs) + 1)
         /\ lastOp' = Op("start", "ok")
         /\ UNCHANGED <<buffer, minLevel, serial, tags, events, currentYear, fed, received, cutInLine>>

\* a mutant of start: no check of this.process
startUnguarded(scripts) ==
    /\ Len(procs) < MaxSpawns
    /\ \E script \in scripts : procs' = Append(procs, spawn(args(serial, tags, minLevel), script))
    /\ process' = Handle(Len(procs) + 1)
    /\ events' = Append(events, Event("start", Null))
    /\ lastOp' = Op("start", "ok")
    /\ UNCHANGED <<buffer, minLevel, serial, tags, currentYear, fed, received, cutInLine>>

\* start(): throws when a process is held, else spawns and emits 'start';
\* scripts holds what the spawned subprocess may do
start(scripts) ==
    IF process # Null
    THEN /\ lastOp' = Op("start", "Logcat stream already running")
         /\ UNCHANGED <<process, buffer, minLevel, serial, tags, events, procs, currentYear, fed, received, cutInLine>>
    ELSE /\ Len(procs) < MaxSpawns
         /\ \E script \in scripts : procs' = Append(procs, spawn(args(serial, tags, minLevel), script))
         /\ process' = Handle(Len(procs) + 1)
         /\ events' = Append(events, Event("start", Null))
         /\ lastOp' = Op("start", "ok")
         /\ UNCHANGED <<buffer, minLevel, serial, tags, currentYear, fed, received, cutInLine>>

\* a mutant of stop: the handle is kept after the signal
stopKeepsHandle ==
    /\ IF process # Null
       THEN /\ procs' = [procs EXCEPT ![process.id].kills = @ + 1]
            /\ lastOp' = Op("stop", "SIGTERM")
       ELSE /\ lastOp' = Op("stop", "noop")
            /\ UNCHANGED procs
    /\ UNCHANGED <<process, buffer, minLevel, serial, tags, events, currentYear, fed, received, cutInLine>>

\* stop(): SIGTERM to the held process and the handle dropped, else nothing
stop ==
    /\ IF process # Null
       THEN /\ procs' = [procs EXCEPT ![process.id].kills = @ + 1]
            /\ process' = Null
            /\ lastOp' = Op("stop", "SIGTERM")
       ELSE /\ lastOp' = Op("stop", "noop")
            /\ UNCHANGED <<process, procs>>
    /\ UNCHANGED <<buffer, minLevel, serial, tags, events, currentYear, fed, received, cutInLine>>

\* the stdout 'data' handler of subprocess p receiving its next n bytes:
\* this.handleData(data.toString())
OnStdoutData(p, n) ==
    LET data == SubSeq(procs[p].out, 1, n)
        r    == handleData(buffer, toString(data), minLevel, currentYear)
    IN  /\ procs[p].alive
        /\ n \in 1..Len(procs[p].out)
        /\ procs' = [procs EXCEPT ![p].out = SubSeq(@, n + 1, Len(@))]
        /\ buffer' = r.buffer
        /\ events' = events \o EntryEvents(r.entries)
        /\ fed' = fed \o data
        /\ received' = received \o toString(data)
        /\ cutInLine' = (cutInLine \/ data[n] # NL)
        /\ lastOp' = Op("event", "data")
        /\ UNCHANGED <<process, minLevel, serial, tags, currentYear>>

\* the subprocess ends, by itself or on a signal it has received, and the
\* last of its output has been read: what it had left to write is never written
ProcExit(p) ==
    /\ procs[p].alive
    /\ \E c \in ExitCodes \cup (IF procs[p].kills > 0 THEN {Null} ELSE {}) :
           procs' = [procs EXCEPT ![p].alive = FALSE, ![p].code = c,
                                 ![p].out = << >>, ![p].err = << >>]
    /\ lastOp' = Op("event", "exit")
    /\ UNCHANGED <<process, buffer, minLevel, serial, tags, events, currentYear, fed, received, cutInLine>>

\* a mutant of OnStderrData: the error stops the stream
OnStderrDataStops(p) ==
    /\ procs[p].alive
    /\ procs[p].err # << >>
    /\ procs' = [procs EXCEPT ![p].err = Tail(@)]
    /\ process' = Null
    /\ events' = Append(events, Event("error", toString(Head(procs[p].err))))
    /\ lastOp' = Op("event", "stderr")
    /\ UNCHANGED <<buffer, minLevel, serial, tags, currentYear, fed, received, cutInLine>>

\* the stderr 'data' handler of subprocess p receiving its next chunk:
\* this.emit("error", new Error(data.toString()))
OnStderrData(p) ==
    /\ procs[p].alive
    /\ procs[p].err # << >>
    /\ procs' = [procs EXCEPT ![p].err = Tail(@)]
    /\ events' = Append(events, Event("error", toString(Head(procs[p].err))))
    /\ lastOp' = Op("event", "stderr")
    /\ UNCHANGED <<process, buffer, minLevel, serial, tags, currentYear, fed, received, cutInLine>>

\* the 'error' handler of subprocess p, run when the binary could not be
\* spawned: this.emit("error", err); the 'close' event follows with a
\* negative code
OnError(p) ==
    /\ procs[p].failed /\ ~ procs[p].errored
    /\ procs' = [procs EXCEPT ![p].errored = TRUE, ![p].code = Code(-2)]
    /\ events' = Append(events, Event("error", [error |-> "spawn ENOENT"]))
    /\ lastOp' = Op("event", "error")
    /\ UNCHANGED <<process, buffer, minLevel, serial, tags, currentYear, fed, received, cutInLine>>

\* a mutant of OnClose: 'close' is emitted but the handle is kept
OnCloseKeepsHandle(p) ==
    /\ ~ procs[p].alive /\ ~ procs[p].closed
    /\ procs[p].failed => procs[p].errored
    /\ procs' = [procs EXCEPT ![p].closed = TRUE]
    /\ events' = Append(events, Event("close", procs[p].code))
    /\ lastOp' = Op("event", "close")
    /\ UNCHANGED <<process, buffer, minLevel, serial, tags, currentYear, fed, received, cutInLine>>

\* the 'close' handler of subprocess p
OnClose(p) ==
    /\ ~ procs[p].alive /\ ~ procs[p].closed
    /\ procs[p].failed => procs[p].errored
    /\ procs' = [procs EXCEPT ![p].closed = TRUE]
    /\ process' = Null
    /\ events' = Append(events, Event("close", procs[p].code))
    /\ lastOp' = Op("event", "close")
    /\ UNCHANGED <<buffer, minLevel, serial, tags, currentYear, fed, received, cutInLine>>

\* time passes: from now on new Date().getFullYear() is the next year
NewYear ==
    /\ \E y \in Years : currentYear < y + MaxNewYears
    /\ currentYear' = currentYear + 1
    /\ lastOp' = Op("event", "clock")
    /\ UNCHANGED <<process, buffer, minLevel, serial, tags, events, procs, fed, received, cutInLine>>

InitStream ==
    /\ process = Null
    /\ buffer = << >>
    /\ minLevel \in {"V", "E"}
    /\ serial \in Serials
    /\ tags \in TagLists
    /\ events = << >>
    /\ procs = << >>
    /\ currentYear \in Years
    /\ fed = << >>
    /\ received = << >>
    /\ lastOp = Op("new", "")
    /\ cutInLine = FALSE

(***************************************************************************)
(* LogcatTreeProvider: the entry buffer                                    *)
(***************************************************************************)
UpperCase == <<"A", "B", "C", "D", "E", "F", "G", "H", "I", "J", "K", "L", "M",
               "N", "O", "P", "Q", "R", "S", "T", "U", "V", "W", "X", "Y", "Z">>
LowerCase == <<"a", "b", "c", "d", "e", "f", "g", "h", "i", "j", "k", "l", "m",
               "n", "o", "p", "q", "r", "s", "t", "u", "v", "w", "x", "y", "z">>

\* Array.prototype.indexOf on an array without duplicates: 0-based, -1 if absent
indexOf(arr, x) ==
    IF \E i \in 1..Len(arr) : arr[i] = x
    THEN (CHOOSE i \in 1..Len(arr) : arr[i] = x) - 1
    ELSE -1

\* String.prototype.toLowerCase
toLowerCase(s) ==
    [i \in 1..Len(s) |->
        IF indexOf(UpperCase, s[i]) >= 0 THEN LowerCase[indexOf(UpperCase, s[i]) + 1]
        ELSE s[i]]

\* String.prototype.includes
includes(hay, needle) ==
    \E i \in 0..(Len(hay) - Len(needle)) : SubSeq(hay, i + 1, i + Len(needle)) = needle

levels == <<"V", "D", "I", "W", "E", "F", "S">>

\* a mutant of passesFilters: the text filter looks at the tag only
passesFiltersTagOnly(entry, lvl, flt) ==
    /\ ~ (indexOf(levels, entry.level) < indexOf(levels, lvl))
    /\ \/ flt = Null
       \/ flt.text = << >>
       \/ includes(toLowerCase(entry.tag), toLowerCase(flt.text))

\* the two filters of addEntry: does the entry reach this.entries.push
passesFilters(entry, lvl, flt) ==
    /\ ~ (indexOf(levels, entry.level) < indexOf(levels, lvl))
    /\ \/ flt = Null
       \/ flt.text = << >>
       \/ includes(toLowerCase(entry.tag), toLowerCase(flt.text))
       \/ includes(toLowerCase(entry.message), toLowerCase(flt.text))

\* a mutant of pushBounded: the entries are kept in the order of the day of
\* their timestamps
pushByTimestamp(es, entry, cap) ==
    LET day(e)  == 10 * DigitVal(e.timestamp[2][4]) + DigitVal(e.timestamp[2][5])
        before  == SelectSeq(es, LAMBDA e : day(e) <= day(entry))
        after   == SelectSeq(es, LAMBDA e : day(e) > day(entry))
        all     == before \o <<entry>> \o after
    IN  IF Len(all) > cap THEN Tail(all) ELSE all

\* a mutant of pushBounded: nothing is ever removed
pushNoEvict(es, entry, cap) == Append(es, entry)

\* a mutant of pushBounded: the newest entry is removed instead of the oldest
pushEvictsNewest(es, entry, cap) ==
    IF Len(es) + 1 > cap THEN es ELSE Append(es, entry)

\* this.entries.push(entry); if (this.entries.length > this.maxEntries) this.entries.shift()
pushBounded(es, entry, cap) ==
    IF Len(es) + 1 > cap THEN Tail(Append(es, entry)) ELSE Append(es, entry)

\* addEntry(entry): the listener of onLogcatEntry
addEntry(entry) ==
    /\ IF passesFilters(entry, viewMinLevel, filter)
       THEN /\ Len(accepted) < MaxPush
            /\ entries' = pushBounded(entries, entry, maxEntries)
            /\ accepted' = Append(accepted, entry)
            /\ arrival' = [entry |-> entry, kept |-> TRUE]
       ELSE /\ arrival' = [entry |-> entry, kept |-> FALSE]
            /\ UNCHANGED <<entries, accepted>>
    /\ UNCHANGED <<maxEntries, filter, viewMinLevel, clears>>

\* the listener of onLogcatEntry run for each of the entries that one stdout
\* chunk makes the stream emit, one after the other: the fields of the
\* provider that addEntry assigns, after the last of them
RECURSIVE onLogcatEntry(_, _)
onLogcatEntry(view, es) ==
    IF es = << >> THEN view
    ELSE LET entry == Head(es)
             kept  == passesFilters(entry, viewMinLevel, filter)
         IN  onLogcatEntry(
                 [entries  |-> IF kept THEN pushBounded(view.entries, entry, maxEntries)
                               ELSE view.entries,
                  accepted |-> IF kept THEN Append(view.accepted, entry) ELSE view.accepted,
                  arrival  |-> [entry |-> entry, kept |-> kept]],
                 Tail(es))

setFilter(flt) ==
    /\ filter' = flt
    /\ arrival' = Null
    /\ UNCHANGED <<entries, maxEntries, viewMinLevel, clears, accepted>>

\* a mutant of setMinLevel: the entries retained are filtered again
setMinLevelRefilters(level) ==
    /\ viewMinLevel' = level
    /\ entries' = SelectSeq(entries, LAMBDA e : passesFilters(e, level, filter))
    /\ arrival' = Null
    /\ UNCHANGED <<maxEntries, filter, clears, accepted>>

setMinLevel(level) ==
    /\ viewMinLevel' = level
    /\ arrival' = Null
    /\ UNCHANGED <<entries, maxEntries, filter, clears, accepted>>

\* resolve and reject of a promise: only the first settlement takes effect
Settle(promise, state, value) ==
    IF promise.state = "pending" THEN [state |-> state, value |-> value] ELSE promise

Pending == [state |-> "pending", value |-> Null]
SpawnError == [error |-> "spawn ENOENT"]
ClearFailed == [error |-> "Failed to clear logcat"]

\* a mutant of clear: the local entries are emptied and nothing else is done
clearLocalOnly ==
    /\ Len(clears) < MaxClears
    /\ entries' = << >>
    /\ accepted' = << >>
    /\ UNCHANGED <<maxEntries, filter, viewMinLevel, clears, arrival>>

\* clear(): the local entries are emptied, then clearLogcat spawns
\* "logcat -c" and clear() waits for its promise, which becomes its own
clear ==
    /\ Len(clears) < MaxClears
    /\ entries' = << >>
    /\ accepted' = << >>
    /\ \E ok \in BOOLEAN :
           clears' = Append(clears, [promise |-> Pending,
                                     proc    |-> IF ok THEN "running" ELSE "failed",
                                     code    |-> Null,
                                     timer   |-> "none",   \* no timer is set
                                     kills   |-> 0,        \* calls of proc.kill
                                     \* history: the length of this.entries when
                                     \* the await of clear() ended
                                     left    |-> Null])
    /\ UNCHANGED <<maxEntries, filter, viewMinLevel, arrival>>

\* the "logcat -c" subprocess of clear call i ends, by itself with a code or
\* on a signal from outside without one
ClearProcExit(i) ==
    /\ clears[i].proc = "running"
    /\ \E c \in ExitCodes \cup {Null} :
           clears' = [clears EXCEPT ![i].proc = "exited", ![i].code = c]
    /\ UNCHANGED <<entries, maxEntries, filter, viewMinLevel, accepted, arrival>>

\* the length of this.entries noted by the settlement that ends the await
leftAt(call) == IF call.promise = Pending THEN Number(Len(entries)) ELSE call.left

\* a mutant of OnClearClose: the local entries are emptied when the command
\* has ended, not before
OnClearCloseThenEmpties(i) ==
    /\ clears[i].proc \in {"exited", "errored"}
    /\ clears' = [clears EXCEPT
                     ![i].proc = "closed",
                     ![i].left = IF clears[i].promise = Pending THEN Number(0) ELSE @,
                     ![i].promise = IF clears[i].code = Code(0)
                                    THEN Settle(@, "resolved", Null)
                                    ELSE Settle(@, "rejected", ClearFailed)]
    /\ entries' = << >>
    /\ accepted' = << >>
    /\ UNCHANGED <<maxEntries, filter, viewMinLevel, arrival>>

\* the 'close' handler of clearLogcat; 'close' also follows the 'error' of a
\* failed spawn
OnClearClose(i) ==
    /\ clears[i].proc \in {"exited", "errored"}
    /\ clears' = [clears EXCEPT
                     ![i].proc = "closed",
                     ![i].left = leftAt(clears[i]),
                     ![i].promise = IF clears[i].code = Code(0)
                                    THEN Settle(@, "resolved", Null)
                                    ELSE Settle(@, "rejected", ClearFailed)]
    /\ UNCHANGED <<entries, maxEntries, filter, viewMinLevel, accepted, arrival>>

\* the 'error' handler of clearLogcat: reject
OnClearError(i) ==
    /\ clears[i].proc = "failed"
    /\ clears' = [clears EXCEPT ![i].proc = "errored", ![i].code = Code(-2),
                                ![i].left = leftAt(clears[i]),
                                ![i].promise = Settle(@, "rejected", SpawnError)]
    /\ UNCHANGED <<entries, maxEntries, filter, viewMinLevel, accepted, arrival>>

EntryPool ==
    {parseLogcatLine(toString(l), y) : l \in {LineDebug, LineError, LineInfo}, y \in Years}
Filters == {Null, Text(<<"A">>)}
ViewLevels == {"V", "I"}

InitView ==
    /\ entries = << >>
    /\ maxEntries \in 0..MaxCap
    /\ filter = Null
    /\ viewMinLevel = "V"
    /\ clears = << >>
    /\ accepted = << >>
    /\ arrival = Null

(***************************************************************************)
(* Device properties: getDeviceProps, getDeviceName, getApiLevel,          *)
(* getAndroidVersion                                                       *)
(***************************************************************************)
KeyModel == <<"r", "o", ".", "p", "r", "o", "d", "u", "c", "t", ".", "m", "o", "d", "e", "l">>
KeyName == <<"r", "o", ".", "p", "r", "o", "d", "u", "c", "t", ".", "n", "a", "m", "e">>

\* one match of /\[([^\]]+)\]: \[([^\]]*)\]/ starting at index p of s:
\* Null, or the key, the value and the index after the match
MatchProp(s, p) ==
    LET q == IndexOf(s, "]", p + 1)
        r == IndexOf(s, "]", q + 4)
    IN  IF /\ p <= Len(s) /\ s[p] = "["
           /\ q > p + 1 /\ q + 3 <= Len(s)
           /\ SubSeq(s, q, q + 3) = <<"]", ":", " ", "[">>
           /\ r <= Len(s)
        THEN [key |-> SubSeq(s, p + 1, q - 1), value |-> SubSeq(s, q + 4, r - 1), next |-> r + 1]
        ELSE Null

\* the while loop of getDeviceProps: all matches from index p on, in order
RECURSIVE PropMatches(_, _)
PropMatches(s, p) ==
    IF p > Len(s) THEN << >>
    ELSE LET m == MatchProp(s, p)
         IN  IF m = Null THEN PropMatches(s, p + 1)
             ELSE <<m>> \o PropMatches(s, m.next)

\* props[key] after the loop: the value of the last match of the key, or Null
PropOf(stdout, key) ==
    LET ms   == PropMatches(stdout, 1)
        hits == {k \in 1..Len(ms) : ms[k].key = key}
    IN  IF hits = {} THEN Null
        ELSE Text(ms[CHOOSE k \in hits : \A j \in hits : j <= k].value)

\* getDeviceName on the stdout of "getprop": a ?? b ?? serial
getDeviceName(stdout, ser) ==
    IF PropOf(stdout, KeyModel) # Null THEN PropOf(stdout, KeyModel).text
    ELSE IF PropOf(stdout, KeyName) # Null THEN PropOf(stdout, KeyName).text
    ELSE ser

\* getApiLevel on the stdout of "getprop ro.build.version.sdk"
getApiLevel(stdout) == parseInt10(trim(stdout))

\* getAndroidVersion on the stdout of "getprop ro.build.version.release"
getAndroidVersion(stdout) == trim(stdout)

(***************************************************************************)
(* AdbClient.exec                                                          *)
(***************************************************************************)
Calls == {1, 2}

\* the bytes the subprocess of call c writes to stdout when it writes at
\* all: a character of its own and one two-byte character
OutText(c) == <<IF c = 1 THEN "a" ELSE "b", LeadByte, ContByte>>
ErrText(c) == <<"E", IF c = 1 THEN "a" ELSE "b">>

\* the ways in which the bytes t reach a 'data' handler in at most n chunks
RECURSIVE ChunkSeqs(_, _)
ChunkSeqs(t, n) ==
    IF t = << >> THEN {<< >>}
    ELSE IF n = 0 THEN {}
    ELSE UNION {{<<SubSeq(t, 1, k)>> \o r : r \in ChunkSeqs(SubSeq(t, k + 1, Len(t)), n - 1)}
                   : k \in 1..Len(t)}

\* what the subprocess of call c may write: stdout chunks, stderr chunks
StdoutScripts(c) == {<< >>} \cup ChunkSeqs(OutText(c), MaxOut)
StderrScripts(c) == {<< >>, <<ErrText(c)>>}

Timeout == [error |-> "ADB command timed out"]

IdleCall ==
    [promise |-> [state |-> "none", value |-> Null],
     proc    |-> "none",       \* none, running, failed (could not be spawned),
                               \* errored ('error' emitted), exited, closed
     code    |-> Null,
     outQ    |-> << >>, errQ |-> << >>,
     plan    |-> << >>, planErr |-> << >>,   \* history: outQ and errQ at the spawn
     stdout  |-> << >>, stderr |-> << >>,
     killed  |-> FALSE,
     timer   |-> "none",       \* none, armed, fired, cleared
     kills   |-> 0,            \* calls of proc.kill("SIGTERM")
     spawns  |-> 0,
     settled |-> 0]            \* settlements that took effect

\* exec(args, options): the promise executor up to the registration of the handlers
exec(c) ==
    /\ calls[c].promise.state = "none"
    /\ \E ok \in BOOLEAN, o \in StdoutScripts(c), e \in StderrScripts(c) :
           calls' = [calls EXCEPT ![c] =
                        [@ EXCEPT !.promise = Pending,
                                  !.proc = IF ok THEN "running" ELSE "failed",
                                  !.outQ = IF ok THEN o ELSE << >>,
                                  !.errQ = IF ok THEN e ELSE << >>,
                                  !.plan = IF ok THEN o ELSE << >>,
                                  !.planErr = IF ok THEN e ELSE << >>,
                                  !.timer = "armed",
                                  !.spawns = @ + 1]]

\* a mutant of OnTimeout: one timer for all calls, which signals every
\* subprocess and rejects every pending promise
OnTimeoutOfAll(c) ==
    /\ calls[c].timer = "armed"
    /\ calls' = [d \in Calls |->
                    IF d = c \/ calls[d].timer = "armed"
                    THEN [calls[d] EXCEPT !.timer = "fired",
                                          !.killed = TRUE,
                                          !.kills = @ + 1,
                                          !.promise = Settle(@, "rejected", Timeout),
                                          !.settled = IF calls[d].promise.state = "pending"
                                                      THEN @ + 1 ELSE @]
                    ELSE calls[d]]

\* a mutant of OnTimeout: the subprocess is signalled but the promise is left pending
OnTimeoutNoReject(c) ==
    /\ calls[c].timer = "armed"
    /\ calls' = [calls EXCEPT ![c] =
                    [@ EXCEPT !.timer = "fired", !.killed = TRUE, !.kills = @ + 1]]

\* the setTimeout callback
OnTimeout(c) ==
    /\ calls[c].timer = "armed"
    /\ calls' = [calls EXCEPT ![c] =
                    [@ EXCEPT !.timer = "fired",
                              !.killed = TRUE,
                              !.kills = @ + 1,
                              !.promise = Settle(@, "rejected", Timeout),
                              !.settled = IF calls[c].promise.state = "pending"
                                          THEN @ + 1 ELSE @]]

\* a mutant of clearTimeout: the timer stays armed
clearTimeoutKeepsTimer(t) == t

\* clearTimeout(timer)
clearTimeout(t) == IF t = "armed" THEN "cleared" ELSE t

\* the stdout 'data' handler: stdout += data.toString()
OnExecStdout(c) ==
    /\ calls[c].proc \in {"running", "exited"}
    /\ calls[c].outQ # << >>
    /\ calls' = [calls EXCEPT ![c] =
                    [@ EXCEPT !.stdout = @ \o toString(Head(calls[c].outQ)),
                              !.outQ = Tail(@)]]

\* the stderr 'data' handler: stderr += data.toString()
OnExecStderr(c) ==
    /\ calls[c].proc \in {"running", "exited"}
    /\ calls[c].errQ # << >>
    /\ calls' = [calls EXCEPT ![c] =
                    [@ EXCEPT !.stderr = @ \o toString(Head(calls[c].errQ)),
                              !.errQ = Tail(@)]]

\* the subprocess ends: by itself with a code, or without one on a signal,
\* the SIGTERM of the timer or a signal sent from outside
ExecProcExit(c) ==
    /\ calls[c].proc = "running"
    /\ \E code \in ExitCodes \cup {Null} :
           calls' = [calls EXCEPT ![c] = [@ EXCEPT !.proc = "exited", !.code = code]]

\* a mutant of exitCodeOf: code ?? -1
exitCodeOfSignalled(code) == IF code = Null THEN -1 ELSE code.code

\* code ?? 0
exitCodeOf(code) == IF code = Null THEN 0 ELSE code.code

\* a mutant of OnExecClose: the timer is left as it is
OnExecCloseKeepsTimer(c) ==
    /\ calls[c].proc \in {"exited", "errored"}
    /\ calls' = [calls EXCEPT ![c] =
                    [@ EXCEPT !.proc = "closed",
                              !.promise =
                                  IF ~ calls[c].killed
                                  THEN Settle(@, "resolved",
                                              [exitCode |-> exitCodeOf(calls[c].code),
                                               stdout   |-> calls[c].stdout,
                                               stderr   |-> calls[c].stderr])
                                  ELSE @,
                              !.settled = IF ~ calls[c].killed /\ calls[c].promise.state = "pending"
                                          THEN @ + 1 ELSE @]]

\* the 'close' handler; 'close' also follows the 'error' of a failed spawn
OnExecClose(c) ==
    /\ calls[c].proc \in {"exited", "errored"}
    /\ calls' = [calls EXCEPT ![c] =
                    [@ EXCEPT !.proc = "closed",
                              !.timer = clearTimeout(@),
                              !.promise =
                                  IF ~ calls[c].killed
                                  THEN Settle(@, "resolved",
                                              [exitCode |-> exitCodeOf(calls[c].code),
                                               stdout   |-> calls[c].stdout,
                                               stderr   |-> calls[c].stderr])
                                  ELSE @,
                              !.settled = IF ~ calls[c].killed /\ calls[c].promise.state = "pending"
                                          THEN @ + 1 ELSE @]]

\* the 'error' handler, run when the binary could not be spawned
OnExecError(c) ==
    /\ calls[c].proc = "failed"
    /\ calls' = [calls EXCEPT ![c] =
                    [@ EXCEPT !.proc = "errored",
                              !.code = Code(-2),
                              !.timer = clearTimeout(@),
                              !.promise = Settle(@, "rejected", SpawnError),
                              !.settled = IF calls[c].promise.state = "pending"
                                          THEN @ + 1 ELSE @]]

InitExec == calls = [c \in Calls |-> IdleCall]

(***************************************************************************)
(* AdbService.getDevices                                                   *)
(***************************************************************************)
Unknown == <<"U", "n", "k", "n", "o", "w", "n">>
\* the device state of a device that is ready
Ready == <<"d", "e", "v", "i", "c", "e">>

(***************************************************************************)
(* devices.ts: parseDeviceLine and getDevices                              *)
(***************************************************************************)
\* String.prototype.split(/\s+/)
RECURSIVE splitWS(_)
splitWS(s) ==
    LET e == SkipOutside(s, 1, WS \cup {NL})
        n == SkipClass(s, e, WS \cup {NL})
    IN  IF e > Len(s) THEN <<s>>
        ELSE <<SubSeq(s, 1, e - 1)>> \o splitWS(SubSeq(s, n, Len(s)))

\* const [key, value] = part.split(":"): value is Null (undefined) without a colon
keyValue(part) ==
    LET c == IndexOf(part, ":", 1)
        d == IndexOf(part, ":", c + 1)
    IN  [key   |-> SubSeq(part, 1, c - 1),
         value |-> IF c > Len(part) THEN Null ELSE Text(SubSeq(part, c + 1, d - 1))]

\* a mutant of propsOf: every token is stored, whatever its key and value
propsOfUnchecked(parts, key) ==
    LET hits == {i \in 3..Len(parts) : keyValue(parts[i]).key = key}
    IN  IF hits = {} THEN Null
        ELSE keyValue(parts[CHOOSE i \in hits : \A j \in hits : j <= i]).value

\* props[key] after the loop over parts[2..]: the value of the last token
\* with that key whose key and value are both non-empty, Null (undefined) if none
propsOf(parts, key) ==
    LET hits == {i \in 3..Len(parts) :
                    LET kv == keyValue(parts[i])
                    IN  /\ kv.key = key /\ kv.key # << >>
                        /\ kv.value # Null /\ kv.value.text # << >>}
    IN  IF hits = {} THEN Null
        ELSE keyValue(parts[CHOOSE i \in hits : \A j \in hits : j <= i]).value

parseDeviceLine(line) ==
    LET parts == splitWS(trim(line))
    IN  IF Len(parts) < 2 THEN Null
        ELSE [serial      |-> parts[1],
              state       |-> parts[2],
              model       |-> propsOf(parts, <<"m", "o", "d", "e", "l">>),
              product     |-> propsOf(parts, <<"p", "r", "o", "d", "u", "c", "t">>),
              device      |-> propsOf(parts, <<"d", "e", "v", "i", "c", "e">>),
              transportId |-> propsOf(parts, <<"t", "r", "a", "n", "s", "p", "o", "r", "t", "_", "i", "d">>),
              isEmulator  |-> \/ startsWith(parts[1], <<"e", "m", "u", "l", "a", "t", "o", "r", "-">>)
                              \/ includes(parts[1], <<":", "5", "5", "5", "5">>)]

ListHeader == <<"L", "i", "s", "t", " ", "o", "f", " ", "d", "e", "v", "i", "c", "e", "s", " ", "a", "t", "t", "a", "c", "h", "e", "d">>

\* getDevices(client) of devices.ts on the stdout of "adb devices -l"
RECURSIVE devicesOf(_)
devicesOf(lines) ==
    IF lines = << >> THEN << >>
    ELSE LET line == Head(lines)
             rest == devicesOf(Tail(lines))
         IN  IF startsWith(line, ListHeader) \/ trim(line) = << >> THEN rest
             ELSE IF parseDeviceLine(line) # Null THEN <<parseDeviceLine(line)>> \o rest
             ELSE rest

listDevices(stdout) == devicesOf(split(stdout))

\* the lines "adb devices -l" may print after the header, in the order it
\* prints them: a ready emulator with tokens that are no pairs, a device
\* that is offline, a ready device without a model (tab and leading
\* blanks), an unauthorized device, a line of one token, a blank line
ListingLines ==
    <<<<"e", "m", "u", "l", "a", "t", "o", "r", "-", "5", "5", "5", "4", " ", "d", "e", "v", "i", "c", "e", " ", "p", "r", "o", "d", "u", "c", "t", ":", "s", "d", "k", " ", "m", "o", "d", "e", "l", ":", "P", "x", " ", "x", " ", ":", "v", " ", "m", "o", "d", "e", "l", ":", " ", "t", "r", "a", "n", "s", "p", "o", "r", "t", "_", "i", "d", ":", "1">>,
      <<"b", " ", "o", "f", "f", "l", "i", "n", "e", " ", "m", "o", "d", "e", "l", ":", "P", "x">>,
      <<" ", " ", "c", "\t", "d", "e", "v", "i", "c", "e", " ", "u", "s", "b", ":", "1">>,
      <<"d", " ", "u", "n", "a", "u", "t", "h", "o", "r", "i", "z", "e", "d">>,
      <<"e">>,
      <<" ", " ">>>>

\* the elements of seq at the indices of set picks, in order
RECURSIVE Pick(_, _)
Pick(seq, picks) ==
    IF picks = {} THEN << >>
    ELSE LET k == CHOOSE k \in picks : \A j \in picks : k <= j
         IN  <<seq[k]>> \o Pick(seq, picks \ {k})

\* lines joined, each followed by "\n"
RECURSIVE unlines(_)
unlines(lines) ==
    IF lines = << >> THEN << >> ELSE Head(lines) \o <<NL>> \o unlines(Tail(lines))

\* the stdout of "adb devices -l": the header, at most MaxDevices lines and
\* an empty line
Listings ==
    {unlines(<<ListHeader>> \o Pick(ListingLines, picks) \o <<<< >>>>) :
        picks \in {ps \in SUBSET (1..Len(ListingLines)) : Cardinality(ps) <= MaxDevices}}

\* what the three queries of a device may come back with: the stdout of a
\* result, or a failure
QueryKinds == {"name", "apiLevel", "androidVersion"}
StdoutOf(kind) ==
    CASE kind = "name" -> {<<"[", "r", "o", ".", "p", "r", "o", "d", "u", "c", "t", ".", "m", "o", "d", "e", "l", "]", ":", " ", "[", "P", "]", "\n">>, << >>}
      [] kind = "apiLevel" -> {<<"3", "4", "\n">>, << >>}
      [] kind = "androidVersion" -> {<<"1", "4", "\n">>}
Outcomes(kind) ==
    {[state |-> "resolved", value |-> Text(out)] : out \in StdoutOf(kind)}
        \cup {[state |-> "rejected", value |-> Timeout]}

NoQuery == [state |-> "none", value |-> Null]

\* { ...device, name: device.model ?? device.serial, apiLevel: 0, androidVersion: "Unknown" }
BasicInfo(dev) ==
    [serial |-> dev.serial, state |-> dev.state, model |-> dev.model, product |-> dev.product,
     device |-> dev.device, transportId |-> dev.transportId, isEmulator |-> dev.isEmulator,
     name |-> IF dev.model # Null THEN dev.model.text ELSE dev.serial,
     apiLevel |-> Number(0),
     androidVersion |-> Unknown]

\* { ...device, name, apiLevel, androidVersion } of the three results
FullInfo(dev, q) ==
    [serial |-> dev.serial, state |-> dev.state, model |-> dev.model, product |-> dev.product,
     device |-> dev.device, transportId |-> dev.transportId, isEmulator |-> dev.isEmulator,
     name |-> getDeviceName(q["name"].value.text, dev.serial),
     apiLevel |-> getApiLevel(q["apiLevel"].value.text),
     androidVersion |-> getAndroidVersion(q["androidVersion"].value.text)]


\* a mutant of Loop: the three queries are made whatever the state of the device
RECURSIVE LoopQueriesAll(_, _, _, _)
LoopQueriesAll(devs, i, infos, qs) ==
    IF i > Len(devs) THEN [pc |-> "resolved", idx |-> i, infos |-> infos, queries |-> qs]
    ELSE [pc |-> "awaiting", idx |-> i, infos |-> infos,
          queries |-> [qs EXCEPT ![i] = [k \in QueryKinds |-> Pending]]]

\* the for loop from device i on, up to its next await or to the return:
\* a device that is not ready gets its basic info at once, a ready one has
\* its three queries started (each spawns its subprocess) and is awaited
RECURSIVE Loop(_, _, _, _)
Loop(devs, i, infos, qs) ==
    IF i > Len(devs) THEN [pc |-> "resolved", idx |-> i, infos |-> infos, queries |-> qs]
    ELSE IF devs[i].state # Ready
    THEN Loop(devs, i + 1, Append(infos, BasicInfo(devs[i])), qs)
    ELSE [pc |-> "awaiting", idx |-> i, infos |-> infos,
          queries |-> [qs EXCEPT ![i] = [k \in QueryKinds |-> Pending]]]

\* getDevices(): getDevices(this.client) is called and awaited
getDevices ==
    /\ listPc = "idle"
    /\ listPc' = "listing"
    /\ UNCHANGED <<listing, devices, idx, deviceInfos, queries>>

\* "adb devices -l" has given its result: getDevices(this.client) returns
\* the devices of its stdout and the loop starts
OnListResolved(stdout) ==
    LET devs == listDevices(stdout)
        go   == Loop(devs, 1, << >>, [d \in 1..Len(devs) |-> [k \in QueryKinds |-> NoQuery]])
    IN  /\ listPc = "listing"
        /\ listing' = stdout
        /\ devices' = devs
        /\ listPc' = go.pc
        /\ idx' = go.idx
        /\ deviceInfos' = go.infos
        /\ queries' = go.queries

\* "adb devices -l" failed: the await throws and getDevices() rejects
OnListRejected ==
    /\ listPc = "listing"
    /\ listPc' = "rejected"
    /\ UNCHANGED <<listing, devices, idx, deviceInfos, queries>>

\* a mutant of Settled: without the catch, a failed query rejects getDevices()
SettledNoCatch(d, kind, outcome) ==
    LET qs == [queries EXCEPT ![d][kind] = outcome]
    IN  IF outcome.state = "rejected"
        THEN [pc |-> "rejected", idx |-> idx, infos |-> deviceInfos, queries |-> qs]
        ELSE IF \A k \in QueryKinds : qs[d][k].state = "resolved"
        THEN Loop(devices, d + 1, Append(deviceInfos, FullInfo(devices[d], qs[d])), qs)
        ELSE [pc |-> "awaiting", idx |-> idx, infos |-> deviceInfos, queries |-> qs]

\* a query of the device awaited has settled: Promise.all rejects with the
\* first failure and resolves when all three have resolved; the catch block
\* pushes the basic info; then the loop goes on
Settled(d, kind, outcome) ==
    LET qs == [queries EXCEPT ![d][kind] = outcome]
    IN  IF outcome.state = "rejected"
        THEN Loop(devices, d + 1, Append(deviceInfos, BasicInfo(devices[d])), qs)
        ELSE IF \A k \in QueryKinds : qs[d][k].state = "resolved"
        THEN Loop(devices, d + 1, Append(deviceInfos, FullInfo(devices[d], qs[d])), qs)
        ELSE [pc |-> "awaiting", idx |-> idx, infos |-> deviceInfos, queries |-> qs]

\* the promise of query kind of device d settles; a query of a device the
\* loop has left settles with nobody looking at it
OnQuerySettled(d, kind, outcome) ==
    /\ queries[d][kind].state = "pending"
    /\ IF listPc = "awaiting" /\ d = idx
       THEN LET go == Settled(d, kind, outcome)
            IN  /\ listPc' = go.pc
                /\ idx' = go.idx
                /\ deviceInfos' = go.infos
                /\ queries' = go.queries
       ELSE /\ queries' = [queries EXCEPT ![d][kind] = outcome]
            /\ UNCHANGED <<listPc, idx, deviceInfos>>
    /\ UNCHANGED <<listing, devices>>

InitList ==
    /\ listPc = "idle"
    /\ listing = << >>
    /\ devices = << >>
    /\ idx = 0
    /\ deviceInfos = << >>
    /\ queries = << >>

Init ==
    /\ InitStream
    /\ InitView
    /\ InitExec
    /\ InitList

\* a stream built without a serial and without tags
NoOptions == serial = Null /\ tags = << >>

\* the entry buffer fed entries of the pool, with filter changes and clears
AddEntry == (\E e \in EntryPool : addEntry(e)) /\ UNCHANGED <<streamVars, execVars, listVars>>
SetFilter == (\E f \in Filters : setFilter(f)) /\ UNCHANGED <<streamVars, execVars, listVars>>
SetMinLevel == (\E l \in ViewLevels : setMinLevel(l)) /\ UNCHANGED <<streamVars, execVars, listVars>>
Clear == clear /\ UNCHANGED <<streamVars, execVars, listVars>>
NextView == AddEntry \/ SetFilter \/ SetMinLevel \/ Clear
InitViewOnly == Init /\ NoOptions /\ minLevel = "V"
SpecView == InitViewOnly /\ [][NextView]_vars

\* clear() with the events of its subprocess, in a buffer that entries arrive in
ClearExit == (\E i \in 1..Len(clears) : ClearProcExit(i)) /\ UNCHANGED <<streamVars, execVars, listVars>>
ClearClose == (\E i \in 1..Len(clears) : OnClearClose(i)) /\ UNCHANGED <<streamVars, execVars, listVars>>
ClearError == (\E i \in 1..Len(clears) : OnClearError(i)) /\ UNCHANGED <<streamVars, execVars, listVars>>
NextClear == AddEntry \/ Clear \/ ClearExit \/ ClearClose \/ ClearError
InitClearOnly == Init /\ NoOptions /\ minLevel = "V" /\ maxEntries = MaxCap
SpecClear == InitClearOnly /\ [][NextClear]_vars
\* the 'close' and 'error' events of a subprocess are delivered; nothing
\* makes a subprocess end
FairSpecClear == SpecClear /\ WF_vars(ClearClose) /\ WF_vars(ClearError)

\* one session fed a text of the pool in every possible cut
StartSplit == start(SplitScripts) /\ UNCHANGED <<viewVars, execVars, listVars>>
DataAnyCut ==
    /\ \E p \in 1..Len(procs) : \E n \in 1..Len(procs[p].out) : OnStdoutData(p, n)
    /\ UNCHANGED <<viewVars, execVars, listVars>>
NextSplit == StartSplit \/ DataAnyCut
InitSplitOnly == Init /\ NoOptions /\ maxEntries = MaxCap
SpecSplit == InitSplitOnly /\ [][NextSplit]_vars

\* one session fed lines in and out of the grammar in every possible cut
StartNoise == start(NoiseScripts) /\ UNCHANGED <<viewVars, execVars, listVars>>
NextNoise == StartNoise \/ DataAnyCut
SpecNoise == InitSplitOnly /\ [][NextNoise]_vars

\* the stream with the view listening to it: every entry emitted reaches
\* addEntry within the handler of the chunk that completed its line
PipeStart == start(PipeScripts) /\ UNCHANGED <<viewVars, execVars, listVars>>
PipeData ==
    /\ \E p \in 1..Len(procs) :
           /\ Len(procs[p].out) > 0
           /\ OnStdoutData(p, Min(ChunkLen, Len(procs[p].out)))
    /\ LET new  == SubSeq(events', Len(events) + 1, Len(events'))
           view == onLogcatEntry([entries |-> entries, accepted |-> accepted,
                                  arrival |-> arrival],
                                 [i \in 1..Len(new) |-> new[i].arg])
       IN  /\ entries' = view.entries
           /\ accepted' = view.accepted
           /\ arrival' = view.arrival
    /\ UNCHANGED <<maxEntries, filter, viewMinLevel, clears, execVars, listVars>>
NextPipe == PipeStart \/ PipeData \/ Clear
InitPipeOnly == Init /\ NoOptions /\ minLevel = "V"
SpecPipe == InitPipeOnly /\ [][NextPipe]_vars

\* the life cycle: start, stop, exits and close events in every interleaving
Start == start(LifeScripts) /\ UNCHANGED <<viewVars, execVars, listVars>>
Stop == stop /\ UNCHANGED <<viewVars, execVars, listVars>>
Data ==
    /\ \E p \in 1..Len(procs) :
           Len(procs[p].out) > 0 /\ OnStdoutData(p, Min(ChunkLen, Len(procs[p].out)))
    /\ UNCHANGED <<viewVars, execVars, listVars>>
Exit == (\E p \in 1..Len(procs) : ProcExit(p)) /\ UNCHANGED <<viewVars, execVars, listVars>>
Close == (\E p \in 1..Len(procs) : OnClose(p)) /\ UNCHANGED <<viewVars, execVars, listVars>>
NextStream == Start \/ Stop \/ Data \/ Exit \/ Close
InitStreamOnly == Init /\ NoOptions /\ maxEntries = MaxCap /\ minLevel = "V"
SpecStream == InitStreamOnly /\ [][NextStream]_vars
\* the 'close' event of a subprocess that has exited is delivered
FairSpecStream == SpecStream /\ WF_vars(Close)

\* streams built with every serial, list of tags and minimum level, started
\* and stopped
NextArgs == Start \/ Stop
InitArgsOnly == Init /\ maxEntries = MaxCap
SpecArgs == InitArgsOnly /\ [][NextArgs]_vars

\* one session whose subprocess writes a line twice, in every cut, while
\* time passes
StartClock == start(ClockScripts) /\ UNCHANGED <<viewVars, execVars, listVars>>
Tick == NewYear /\ UNCHANGED <<viewVars, execVars, listVars>>
NextClock == StartClock \/ DataAnyCut \/ Tick
SpecClock == InitSplitOnly /\ [][NextClock]_vars

\* sessions, one after the other, of subprocesses that write to stderr or
\* cannot be spawned
StartFaulty == start(FaultScripts) /\ UNCHANGED <<viewVars, execVars, listVars>>
StderrData == (\E p \in 1..Len(procs) : OnStderrData(p)) /\ UNCHANGED <<viewVars, execVars, listVars>>
Error == (\E p \in 1..Len(procs) : OnError(p)) /\ UNCHANGED <<viewVars, execVars, listVars>>
NextFaults == StartFaulty \/ Data \/ StderrData \/ Error \/ Exit \/ Close
SpecFaults == InitStreamOnly /\ [][NextFaults]_vars

\* exec calls with their timers, data, exit, close and error events interleaved
Exec == (\E c \in Calls : exec(c)) /\ UNCHANGED <<streamVars, viewVars, listVars>>
ExecTimeout == (\E c \in Calls : OnTimeout(c)) /\ UNCHANGED <<streamVars, viewVars, listVars>>
ExecStdout == (\E c \in Calls : OnExecStdout(c)) /\ UNCHANGED <<streamVars, viewVars, listVars>>
ExecStderr == (\E c \in Calls : OnExecStderr(c)) /\ UNCHANGED <<streamVars, viewVars, listVars>>
ExecExit == (\E c \in Calls : ExecProcExit(c)) /\ UNCHANGED <<streamVars, viewVars, listVars>>
ExecClose == (\E c \in Calls : OnExecClose(c)) /\ UNCHANGED <<streamVars, viewVars, listVars>>
ExecError == (\E c \in Calls : OnExecError(c)) /\ UNCHANGED <<streamVars, viewVars, listVars>>
NextExec ==
    Exec \/ ExecTimeout \/ ExecStdout \/ ExecStderr \/ ExecExit \/ ExecClose \/ ExecError
InitExecOnly == Init /\ NoOptions /\ minLevel = "V" /\ maxEntries = MaxCap
SpecExec == InitExecOnly /\ [][NextExec]_vars
\* an armed timer that is not cleared fires
FairSpecExec ==
    SpecExec /\ \A c \in Calls : WF_vars(OnTimeout(c) /\ UNCHANGED <<streamVars, viewVars, listVars>>)

\* one listing of devices with the queries of its ready devices
GetDevices == getDevices /\ UNCHANGED <<streamVars, viewVars, execVars>>
ListResolved ==
    (\E stdout \in Listings : OnListResolved(stdout)) /\ UNCHANGED <<streamVars, viewVars, execVars>>
ListRejected == OnListRejected /\ UNCHANGED <<streamVars, viewVars, execVars>>
QuerySettled ==
    /\ \E d \in 1..Len(devices) : \E kind \in QueryKinds : \E outcome \in Outcomes(kind) :
           OnQuerySettled(d, kind, outcome)
    /\ UNCHANGED <<streamVars, viewVars, execVars>>
NextList == GetDevices \/ ListResolved \/ ListRejected \/ QuerySettled
InitListOnly == Init /\ NoOptions /\ minLevel = "V" /\ maxEntries = MaxCap
SpecList == InitListOnly /\ [][NextList]_vars

(***************************************************************************)
(* Claims on the stream engine                                             *)
(***************************************************************************)
EmittedEntries == SelectSeq(events, LAMBDA e : e.type = "entry")

\* C1: whatever the cuts, the 'entry' events emitted so far are those
\* emitted when all the bytes received so far come as one chunk to a fresh
\* stream, in the same order.
C1_SplitInvariance ==
    EmittedEntries =
        EntryEvents(handleData(<< >>, toString(fed), minLevel, currentYear).entries)

Alive == {p \in 1..Len(procs) : procs[p].alive}

\* C4: at most one subprocess spawned by the stream is alive (spawned and not
\* yet exited) at any time.
C4_AtMostOneAlive == Cardinality(Alive) <= 1

\* C5: a step of start() taken while a process is held throws the
\* already-running error and changes neither the handle, the partial-line
\* buffer, the subprocesses nor the events emitted.
C5_StartWhileRunningRejected ==
    [][(process # Null /\ lastOp'.op = "start")
          => /\ lastOp'.res = "Logcat stream already running"
             /\ UNCHANGED <<process, buffer, procs, events>>]_vars

\* start() was rejected on a running stream that holds half a line
C5_Witness ==
    /\ lastOp = Op("start", "Logcat stream already running")
    /\ isRunning
    /\ buffer # << >>
    /\ Len(procs) < MaxSpawns

\* C6: a session that has just been started has an empty partial-line buffer.
C6_NewSessionStartsEmpty ==
    (lastOp.op = "start" /\ lastOp.res = "ok") => buffer = << >>

\* C10: a step of stop() taken while a process is held calls kill once on
\* that process, drops the handle and does nothing else; taken while no
\* process is held it changes nothing.
C10_StopIdempotent ==
    [][lastOp'.op = "stop"
          => IF process # Null
             THEN /\ procs' = [procs EXCEPT ![process.id].kills = @ + 1]
                  /\ ~ isRunning'
                  /\ UNCHANGED <<buffer, events, minLevel>>
             ELSE UNCHANGED <<process, procs, buffer, events, minLevel>>]_vars

\* stop() was called on a stopped stream whose subprocess, signalled once by
\* an earlier stop(), is still alive
C10_Witness ==
    /\ lastOp = Op("stop", "noop")
    /\ \E p \in Alive : procs[p].kills = 1

CloseEvents == SelectSeq(events, LAMBDA e : e.type = "close")
Closed == {p \in 1..Len(procs) : procs[p].closed}

\* C11: as many 'close' events have been emitted as subprocesses have closed;
\* the step that closes a subprocess which exited on its own (never
\* signalled) emits one 'close' event carrying its exit code and leaves the
\* stream stopped; and every subprocess that has exited is eventually closed
\* (exited and closed both last for ever, so again and again every subprocess
\* that has exited is closed).
C11_ExitClosesOnce ==
    /\ [](Len(CloseEvents) = Cardinality(Closed))
    /\ [][\A p \in 1..Len(procs) :
             (procs[p].kills = 0 /\ ~ procs[p].closed /\ procs'[p].closed)
                 => /\ procs[p].code \in ExitCodes
                    /\ events' = Append(events, Event("close", procs[p].code))
                    /\ ~ isRunning']_vars
    /\ []<>(\A p \in 1..Len(procs) : ~ procs[p].alive => procs[p].closed)

\* the subprocess of the running session exited by itself with code 1 and
\* its 'close' event, the only one so far, stopped the stream
C11_Witness ==
    /\ lastOp = Op("event", "close")
    /\ Len(procs) = 1 /\ procs[1].kills = 0 /\ procs[1].closed
    /\ CloseEvents = <<Event("close", Code(1))>>
    /\ ~ isRunning

\* C12: a step of the stderr 'data' handler or of the 'error' handler emits
\* exactly one 'error' event and changes neither the process handle (hence
\* isRunning) nor the partial-line buffer; and whatever errors were emitted,
\* the entries emitted are those of all the stdout bytes received.
C12_ErrorsLeaveState ==
    /\ [][(lastOp'.op = "event" /\ lastOp'.res \in {"stderr", "error"})
             => /\ UNCHANGED <<process, buffer, minLevel, fed>>
                /\ isRunning' = isRunning
                /\ Len(events') = Len(events) + 1
                /\ SubSeq(events', 1, Len(events)) = events
                /\ events'[Len(events')].type = "error"]_vars
    /\ [](EmittedEntries =
            EntryEvents(handleData(<< >>, toString(fed), minLevel, currentYear).entries))

\* a running stream holding half a line emitted the 'error' of a stderr
\* chunk and then the entry of the line completed by a later stdout chunk
C12_Witness ==
    /\ isRunning
    /\ lastOp = Op("event", "data")
    /\ Len(events) >= 2
    /\ events[Len(events)].type = "entry"
    /\ events[Len(events) - 1] = Event("error", StderrChunk)

\* the complete lines received so far, and those of them that are in the
\* grammar and reach the minimum level
C21_Lines == LET ls == split(toString(fed)) IN SubSeq(ls, 1, Len(ls) - 1)
C21_Matching ==
    SelectSeq(C21_Lines,
              LAMBDA l : LET e == parseLogcatLine(l, currentYear)
                         IN  e # Null /\ shouldEmit(e, minLevel))

\* C21: the events emitted are the 'start' of the session and one 'entry'
\* per complete line received that is in the grammar, in order: a blank or
\* unparsed line adds no 'entry' and no 'error' and loses no later line, in
\* the same chunk or a later one; and a step of the stdout handler leaves
\* the process handle alone.
C21_NoiseIsDropped ==
    /\ [](EmittedEntries =
            [i \in 1..Len(C21_Matching) |->
                Event("entry", parseLogcatLine(C21_Matching[i], currentYear))])
    /\ [](\A i \in 1..Len(events) : events[i].type \in {"start", "entry"})
    /\ [][lastOp'.res = "data" => UNCHANGED <<process, minLevel>>]_vars

\* a line of another format came first and the log line after it, received
\* in more than one chunk, was emitted
C21_Witness ==
    /\ cutInLine
    /\ C21_Lines = <<LineNoise, LineDebug>>
    /\ Len(EmittedEntries) = 1
    /\ events[Len(events)].type = "entry"
    /\ isRunning

\* C22: the partial-line buffer holds no newline, and it is the text handed
\* to handleData after the last newline so far (empty when that text ends
\* with a newline or nothing was received): at most one incomplete line.
C22_BufferIsOnePartialLine ==
    LET nls  == {i \in 1..Len(received) : received[i] = NL}
        last == IF nls = {} THEN 0 ELSE CHOOSE i \in nls : \A j \in nls : j <= i
    IN  /\ \A i \in 1..Len(buffer) : buffer[i] # NL
        /\ buffer = SubSeq(received, last + 1, Len(received))

\* after a complete line, the first part of the next line is in the buffer
C22_Witness ==
    /\ lastOp = Op("event", "data")
    /\ buffer # << >>
    /\ \E i \in 1..Len(received) : received[i] = NL
    /\ Len(EmittedEntries) > 0

\* C26: the arguments of every subprocess spawned end with "*:S" if and
\* only if the stream has tags; then what comes between "logcat -v
\* threadtime" and it is one TAG:minLevel per tag, in the order of the tags;
\* and without tags "threadtime" is the last argument.
C26_SilenceIffTags ==
    \A p \in 1..Len(procs) :
        LET a    == procs[p].args
            n    == Len(a)
            more == IF tags = << >> THEN 0 ELSE Len(tags) + 1
        IN  /\ (a[n] = <<"*", ":", "S">>) <=> (tags # << >>)
            /\ n >= more + 3
            /\ SubSeq(a, n - more - 2, n - more) = <<<<"l", "o", "g", "c", "a", "t">>, <<"-", "v">>, <<"t", "h", "r", "e", "a", "d", "t", "i", "m", "e">>>>
            /\ \A i \in 1..Len(tags) :
                   a[n - more + i] = tags[i] \o <<":">> \o <<minLevel>>

\* a stream with a serial, two different tags and minimum level E has
\* spawned its subprocess
C26_Witness ==
    /\ isRunning
    /\ Len(tags) = 2 /\ tags[1] # tags[2]
    /\ minLevel = "E"
    /\ serial = Text(<<"h", ":", "5", "5", "5", "5">>)
    /\ Len(procs[process.id].args) = 8

\* C28: while the stream holds no process (stop() has returned, and start()
\* has not been called since), no step emits an 'entry' event.
C28_SilentAfterStop ==
    [][process = Null => EmittedEntries' = EmittedEntries]_vars

\* C29: while the subprocess of the most recent start() is alive and has
\* not been signalled (no stop() since that start()), isRunning is true.
C29_RunningTracksSession ==
    (/\ Len(procs) > 0
     /\ procs[Len(procs)].alive
     /\ procs[Len(procs)].kills = 0) => isRunning

\* the complete lines handed to handleData so far that are in the grammar
\* and reach the minimum level: the lines parseLogcatLine gave an entry
\* for, each evaluated when its chunk came
C27_Parsed ==
    LET ls == split(received)
    IN  SelectSeq(SubSeq(ls, 1, Len(ls) - 1),
                  LAMBDA l : /\ parseLogcatLine(l, currentYear) # Null
                             /\ shouldEmit(parseLogcatLine(l, currentYear), minLevel))

\* C27: whenever a line has been parsed twice, at whatever moments, the two
\* entries are equal: in timestamp, pid, tid, level, tag and message.
C27_Deterministic ==
    \A i, j \in 1..Len(EmittedEntries) :
        (i <= Len(C27_Parsed) /\ j <= Len(C27_Parsed) /\ C27_Parsed[i] = C27_Parsed[j])
            => EmittedEntries[i].arg = EmittedEntries[j].arg

(***************************************************************************)
(* Claims on the entry buffer                                              *)
(***************************************************************************)
\* C2: the entry buffer never holds more than maxEntries entries, and a step
\* in which an entry is accepted while the buffer is full removes exactly the
\* oldest entry (otherwise it removes none).
C2_BoundedFifo ==
    /\ [](Len(entries) <= maxEntries)
    /\ [][Len(accepted') = Len(accepted) + 1
            => LET e == accepted'[Len(accepted')]
               IN  IF Len(entries) >= maxEntries
                   THEN entries' = Tail(Append(entries, e))
                   ELSE entries' = Append(entries, e)]_vars

\* a full buffer of capacity two has taken one more entry
C2_Witness ==
    /\ maxEntries = 2
    /\ Len(entries) = 2
    /\ Len(accepted) = 3

\* C3: once more entries than the capacity have been accepted since the last
\* clear, the buffer holds exactly the last maxEntries of them, in arrival order.
C3_LastCInOrder ==
    Len(accepted) > maxEntries
        => entries = SubSeq(accepted, Len(accepted) - maxEntries + 1, Len(accepted))

\* four entries accepted into a buffer of capacity two, the two kept ones different
C3_Witness ==
    /\ maxEntries = 2
    /\ Len(accepted) = 4
    /\ Len(entries) = 2
    /\ entries[1] # entries[2]
    /\ accepted[1] # entries[1]

\* the text filter of the claim: none configured, or the lowercased tag or
\* the lowercased message contains the lowercased filter
C13_TextMatches(entry, flt) ==
    \/ flt = Null
    \/ includes(toLowerCase(entry.tag), toLowerCase(flt.text))
    \/ includes(toLowerCase(entry.message), toLowerCase(flt.text))

\* the level filter of the claim, on the order V < D < I < W < E < F < S
C13_LevelReaches(entry, lvl) == LOG_LEVEL_PRIORITY(entry.level) >= LOG_LEVEL_PRIORITY(lvl)

\* C13: the entry last delivered was appended to the entry buffer if and
\* only if its level reaches the minimum level and the text filter matches,
\* with the two checks taken in either order.
C13_RetainedIffBothFilters ==
    arrival # Null
        => /\ arrival.kept <=> (C13_LevelReaches(arrival.entry, viewMinLevel)
                                  /\ C13_TextMatches(arrival.entry, filter))
           /\ arrival.kept <=> (C13_TextMatches(arrival.entry, filter)
                                  /\ C13_LevelReaches(arrival.entry, viewMinLevel))

\* under a minimum level and a text filter, an entry whose message alone
\* matches the filter was kept, next to an earlier one
C13_Witness ==
    /\ viewMinLevel = "I" /\ filter = Text(<<"A">>)
    /\ arrival # Null /\ arrival.kept
    /\ ~ includes(toLowerCase(arrival.entry.tag), toLowerCase(filter.text))
    /\ Len(entries) = 2

\* C14: a step that changes the text filter or the minimum level leaves the
\* entry buffer as it is; a step in which the delivered entry is dropped
\* leaves it as it is; and the buffer holds at all times an unbroken run of
\* the latest entries that were kept at their arrival, so an entry dropped at
\* arrival is never in it.
C14_FiltersLeaveBuffer ==
    /\ [][(filter' # filter \/ viewMinLevel' # viewMinLevel) => entries' = entries]_vars
    /\ [][(arrival' # arrival /\ arrival' # Null /\ ~ arrival'.kept)
             => UNCHANGED <<entries, accepted>>]_vars
    /\ [](\E k \in 0..Len(accepted) : entries = SubSeq(accepted, k + 1, Len(accepted)))

\* the buffer holds an entry that fails the present filters, and an entry
\* equal to it has just been dropped
C14_Witness ==
    /\ arrival # Null /\ ~ arrival.kept
    /\ \E i \in 1..Len(entries) :
           /\ entries[i] = arrival.entry
           /\ ~ passesFilters(entries[i], viewMinLevel, filter)

\* C15: a step of clear() empties the entry buffer and spawns no
\* subprocess: the on-device clear command is issued by no step of clear().
C15_ClearIsLocal ==
    [][clear => (entries' = << >> /\ clears' = clears)]_vars

\* C15 as amended: a step of clear() empties the entry buffer and issues the
\* on-device clear command itself, spawning exactly one subprocess and
\* signalling none; no other step of the provider spawns one.
C15_ClearAlsoClearsDevice ==
    /\ [][clear => /\ entries' = << >>
                   /\ Len(clears') = Len(clears) + 1
                   /\ clears'[Len(clears')].promise = Pending
                   /\ clears'[Len(clears')].kills = 0]_vars
    /\ [][Len(clears') # Len(clears) => clear]_vars

\* the entry last delivered was kept and is gone: the only clear so far
\* emptied the buffer, and its subprocess is running
C15_Witness ==
    /\ arrival # Null /\ arrival.kept
    /\ entries = << >> /\ accepted = << >>
    /\ Len(clears) = 1
    /\ clears[1].proc = "running"

\* C20: the on-device clear command is guarded by a watchdog: a clear whose
\* subprocess is running sees that subprocess end, or else fails with the
\* timeout error with a termination signal sent to the subprocess.
C20_ClearHasWatchdog ==
    \A i \in 1..MaxClears :
        (i <= Len(clears) /\ clears[i].proc = "running")
            ~> (/\ i <= Len(clears)
                /\ \/ clears[i].proc # "running"
                   \/ /\ clears[i].promise = [state |-> "rejected", value |-> Timeout]
                      /\ clears[i].kills > 0)

\* C31: a step of clear() empties the entry buffer and leaves its promise
\* pending; the step that settles the promise of a clear, by resolving or by
\* rejecting it, leaves the buffer as it is; and an entry that passes the
\* filters while a clear is pending is pushed into the buffer.
C31_EmptiedBeforeWaiting ==
    /\ [][clear => entries' = << >> /\ clears'[Len(clears')].promise = Pending]_vars
    /\ [][\A i \in 1..Len(clears) :
             (clears[i].promise = Pending /\ clears'[i].promise # Pending)
                 => /\ entries' = entries
                    /\ clears'[i].left = Number(Len(entries))]_vars
    /\ [][((\E i \in 1..Len(clears) : clears[i].promise = Pending)
              /\ Len(accepted') = Len(accepted) + 1)
             => entries' = pushBounded(entries, arrival'.entry, maxEntries)]_vars

\* the only clear was rejected because its command exited with a code other
\* than 0, and the buffer held an entry when it was
C31_Witness ==
    /\ Len(clears) = 1
    /\ clears[1].promise = [state |-> "rejected", value |-> ClearFailed]
    /\ clears[1].code = Code(1)
    /\ clears[1].left # Null /\ clears[1].left.num > 0
    /\ entries # << >>

\* the number of 'start' events emitted so far
C33_Starts(evs) == Len(SelectSeq(evs, LAMBDA e : e.type = "start"))

\* C33: as many 'start' events have been emitted as subprocesses have been
\* spawned; the step of a start() that spawns a subprocess emits 'start' once,
\* as the last event so far, with the stream running on that subprocess, and
\* no other step emits 'start'; and a step in which subprocess p has an
\* 'entry' or a 'close' event emitted comes when the 'start' of the session
\* of p, the p-th 'start', has been emitted.
C33_StartOncePerSession ==
    /\ [](C33_Starts(events) = Len(procs))
    /\ [][Len(procs') # Len(procs) \/ C33_Starts(events') # C33_Starts(events)
             => /\ Len(procs') = Len(procs) + 1
                /\ events' = Append(events, Event("start", Null))
                /\ isRunning' /\ process' = Handle(Len(procs'))
                /\ lastOp' = Op("start", "ok")]_vars
    /\ [][\A p \in 1..Len(procs) :
             (procs'[p] # procs[p] /\ events' # events)
                 => /\ C33_Starts(events) >= p
                    /\ \A j \in (Len(events) + 1)..Len(events') :
                           events'[j].type \in {"entry", "close"}]_vars

\* two sessions: the first subprocess closed before any of its output was
\* read, the second had an entry emitted and closed; each 'start' comes
\* before the events of its subprocess
C33_Witness ==
    /\ Len(procs) = 2 /\ procs[2].closed
    /\ Len(events) >= 5
    /\ events[1].type = "start" /\ events[2].type = "close"
    /\ events[3].type = "start" /\ events[4].type = "entry"
    /\ events[Len(events)].type = "close"

(***************************************************************************)
(* Claims on exec                                                          *)
(***************************************************************************)
\* C7: once the timer of a call has fired, kill has been called on its
\* subprocess, the promise is rejected with the timeout error, in that state
\* and in every later one, and it has been settled exactly once.
C7_TimeoutRejectsAndKills ==
    \A c \in Calls :
        calls[c].timer = "fired"
            => /\ calls[c].promise = [state |-> "rejected", value |-> Timeout]
               /\ calls[c].kills = 1
               /\ calls[c].settled = 1

\* the subprocess closed after the timer had fired
C7_Witness ==
    \E c \in Calls : calls[c].timer = "fired" /\ calls[c].proc = "closed"

\* C8: whenever a call has failed with the timeout error, its subprocess is
\* not running.
C8_NotRunningAfterTimeout ==
    \A c \in Calls :
        calls[c].promise = [state |-> "rejected", value |-> Timeout]
            => calls[c].proc # "running"

\* the outcome of call c and what led to it
C9_Outcome(c) ==
    LET k == calls[c]
    IN  /\ k.promise.state # "none" => k.spawns = 1
        /\ k.settled = (IF k.promise.state \in {"resolved", "rejected"} THEN 1 ELSE 0)
        /\ k.promise.state = "resolved" => k.proc = "closed" /\ k.timer = "cleared" /\ ~ k.killed
        /\ k.promise = [state |-> "rejected", value |-> Timeout] => k.timer = "fired"
        /\ k.promise = [state |-> "rejected", value |-> SpawnError]
               => k.proc \in {"errored", "closed"} /\ k.timer = "cleared" /\ k.kills = 0

\* C9: every call spawns exactly one subprocess; a result means the
\* subprocess closed with the timer not fired, a timeout failure means the
\* timer fired, a spawn error means the error event came; and every call made
\* is eventually settled, once.
C9_SettlesOnce ==
    /\ [](\A c \in Calls : C9_Outcome(c))
    /\ \A c \in Calls :
           (calls[c].promise.state = "pending") ~> (calls[c].promise.state \in {"resolved", "rejected"})

\* a call whose subprocess never ended was settled by the timer
C9_Witness ==
    \E c \in Calls :
        /\ calls[c].proc = "running"
        /\ calls[c].promise = [state |-> "rejected", value |-> Timeout]

\* the entries of the complete lines handed to handleData so far, in the
\* order of the lines
C23_Arrived ==
    LET ls   == split(received)
        done == SelectSeq(SubSeq(ls, 1, Len(ls) - 1),
                          LAMBDA l : parseLogcatLine(l, currentYear) # Null)
    IN  [i \in 1..Len(done) |-> parseLogcatLine(done[i], currentYear)]

C23_IsSuffix(s, t) == Len(s) <= Len(t) /\ s = SubSeq(t, Len(t) - Len(s) + 1, Len(t))

\* C23: with no filter set in the view, the entry buffer is a contiguous
\* suffix of the entries of the lines received, in the order in which the
\* lines arrived, whatever their timestamps; every clear empties it, and what
\* it holds afterwards is a suffix of what arrived since.
C23_ArrivalOrder ==
    /\ C23_IsSuffix(entries, accepted)
    /\ C23_IsSuffix(accepted, C23_Arrived)
    /\ clears = << >> => accepted = C23_Arrived

\* the buffer holds two entries of which the first has the later timestamp
C23_Witness ==
    /\ Len(entries) = 2
    /\ entries[1] = parseLogcatLine(LineDebug, currentYear)
    /\ entries[2] = parseLogcatLine(LineOlder, currentYear)

\* call c has its result, or has failed with the error of its subprocess
C30_Completed(c) ==
    \/ calls[c].promise.state = "resolved"
    \/ calls[c].promise = [state |-> "rejected", value |-> SpawnError]

\* C30: a call settled by the 'close' or the 'error' of its subprocess has
\* its timer cleared and no signal sent, and stays so: the timer does not
\* fire, no signal is sent to the subprocess and the settlement is not
\* replaced by the timeout error.
C30_WatchdogCancelled ==
    /\ [](\A c \in Calls :
             C30_Completed(c) => calls[c].timer = "cleared" /\ calls[c].kills = 0)
    /\ [][\A c \in Calls :
             C30_Completed(c)
                 => /\ calls'[c].promise = calls[c].promise
                    /\ calls'[c].timer = "cleared"
                    /\ calls'[c].kills = calls[c].kills
                    /\ calls'[c].settled = calls[c].settled]_vars

\* call 1 has its result and its subprocess has closed; call 2 failed with
\* the error of a subprocess that could not be spawned, and the 'close'
\* that follows has come
C30_Witness ==
    /\ calls[1].promise.state = "resolved"
    /\ calls[1].proc = "closed"
    /\ calls[2].promise = [state |-> "rejected", value |-> SpawnError]
    /\ calls[2].proc = "closed"
    /\ \A c \in Calls : calls[c].timer = "cleared" /\ calls[c].kills = 0

\* C32: the result of a call that resolved carries the exit code of its
\* subprocess, and 0 when the subprocess closed without one; a call whose
\* subprocess closed without a code and that sent no signal itself has
\* resolved, it has not failed.
C32_ExitCodeOrZero ==
    \A c \in Calls :
        /\ calls[c].promise.state = "resolved"
               => /\ calls[c].proc = "closed"
                  /\ calls[c].code # Null => calls[c].promise.value.exitCode = calls[c].code.code
                  /\ calls[c].code = Null => calls[c].promise.value.exitCode = 0
        /\ (calls[c].proc = "closed" /\ calls[c].code = Null /\ calls[c].kills = 0)
               => calls[c].promise.state = "resolved"

\* the subprocess of call 1 was ended by a signal from outside and the call
\* resolved with 0; that of call 2 exited with 1 and the call resolved with 1
C32_Witness ==
    /\ calls[1].proc = "closed" /\ calls[1].code = Null /\ calls[1].kills = 0
    /\ calls[1].promise.state = "resolved" /\ calls[1].promise.value.exitCode = 0
    /\ calls[2].proc = "closed" /\ calls[2].code = Code(1)
    /\ calls[2].promise.state = "resolved" /\ calls[2].promise.value.exitCode = 1

\* the text of chunks decoded one by one and concatenated
RECURSIVE C24_Text(_)
C24_Text(chunks) ==
    IF chunks = << >> THEN << >> ELSE toString(Head(chunks)) \o C24_Text(Tail(chunks))

\* the chunks of a script that have left the queue
C24_Delivered(plan, queue) == SubSeq(plan, 1, Len(plan) - Len(queue))

\* C24: the result of a call holds, as stdout and stderr, the text of the
\* chunks its own subprocess delivered, in order and nothing else; a step
\* changes the state of one call at most; and the step in which the timer of
\* a call fires leaves the subprocess and the promise of every other call
\* as they were.
C24_CallsAreIsolated ==
    /\ [](\A c \in Calls :
             calls[c].promise.state = "resolved"
                 => /\ calls[c].promise.value.stdout =
                           C24_Text(C24_Delivered(calls[c].plan, calls[c].outQ))
                    /\ calls[c].promise.value.stderr =
                           C24_Text(C24_Delivered(calls[c].planErr, calls[c].errQ)))
    /\ [][\A c, d \in Calls :
             c # d => \/ calls'[c] = calls[c]
                      \/ calls'[d] = calls[d]]_vars
    /\ [][\A c, d \in Calls :
             (c # d /\ calls[c].timer = "armed" /\ calls'[c].timer = "fired")
                 => /\ calls'[d].kills = calls[d].kills
                    /\ calls'[d].promise = calls[d].promise
                    /\ calls'[d].timer = calls[d].timer]_vars

\* the timer of call 1 fired after its first chunk, with its subprocess
\* still running, and call 2 has its result: all that its subprocess wrote,
\* in two chunks and to stderr, and no signal sent to it
C24_Witness ==
    /\ calls[1].promise = [state |-> "rejected", value |-> Timeout]
    /\ calls[1].proc = "running"
    /\ calls[1].stdout = <<"a">>
    /\ calls[2].promise.state = "resolved"
    /\ calls[2].promise.value.stdout = <<"b", EAcute>>
    /\ calls[2].promise.value.stderr = ErrText(2)
    /\ Len(calls[2].plan) = 2
    /\ calls[2].kills = 0

(***************************************************************************)
(* Claims on the listing of devices                                        *)
(***************************************************************************)
\* the fields the claims give a device whose details are not known
C16_Fallback(info, dev) ==
    /\ info.serial = dev.serial /\ info.state = dev.state
    /\ info.name = (IF dev.model # Null THEN dev.model.text ELSE dev.serial)
    /\ info.apiLevel = Number(0)
    /\ info.androidVersion = <<"U", "n", "k", "n", "o", "w", "n">>

\* C16: for a device that is not in state "device" none of the three
\* queries is ever made, and its DeviceInfo, once built, has the name of the
\* model or else the serial, API level 0 and version "Unknown".
C16_NonReadyNoQueries ==
    \A d \in 1..Len(devices) :
        devices[d].state # Ready
            => /\ \A k \in QueryKinds : queries[d][k].state = "none"
               /\ d <= Len(deviceInfos) => C16_Fallback(deviceInfos[d], devices[d])

\* a listing of two devices that are not ready, one with a model and one
\* without, has returned
C16_Witness ==
    /\ listPc = "resolved"
    /\ Len(deviceInfos) = 2
    /\ \A d \in 1..2 : devices[d].state # Ready
    /\ deviceInfos[1].name = devices[1].model.text
    /\ deviceInfos[2].name = devices[2].serial

\* C17: a ready device one of whose queries has failed has its DeviceInfo,
\* with the name of the model or else the serial, API level 0 and version
\* "Unknown"; getDevices() fails only when the list of devices itself could
\* not be read; and when it returns, it returns one DeviceInfo per device
\* listed, in order.
C17_QueryFailureFallsBack ==
    /\ \A d \in 1..Len(devices) :
           (devices[d].state = Ready /\ \E k \in QueryKinds : queries[d][k].state = "rejected")
               => /\ d <= Len(deviceInfos)
                  /\ C16_Fallback(deviceInfos[d], devices[d])
    /\ listPc = "rejected" => devices = << >>
    /\ listPc = "resolved"
           => /\ Len(deviceInfos) = Len(devices)
              /\ \A d \in 1..Len(devices) : deviceInfos[d].serial = devices[d].serial

\* a listing has returned with a ready device without a model of which
\* exactly one query failed and the other two gave results
C17_Witness ==
    /\ listPc = "resolved"
    /\ \E d \in 1..Len(devices) :
           /\ devices[d].state = Ready /\ devices[d].model = Null
           /\ Cardinality({k \in QueryKinds : queries[d][k].state = "rejected"}) = 1
           /\ Cardinality({k \in QueryKinds : queries[d][k].state = "resolved"}) = 2
           /\ deviceInfos[d].name = devices[d].serial

\* C18: while one of the three queries of a ready device is pending, no
\* DeviceInfo of that device has been produced and the loop has not moved
\* past that device.
C18_AllSettledBeforeCombining ==
    \A d \in 1..Len(devices) :
        (devices[d].state = Ready /\ \E k \in QueryKinds : queries[d][k].state = "pending")
            => /\ Len(deviceInfos) < d
               /\ idx <= d

\* C19: the API level of every DeviceInfo is an integer, and it is 0 unless
\* the API-level query gave a result that reads as a number.
C19_ApiLevelInteger ==
    \A d \in 1..Len(deviceInfos) :
        LET q        == queries[d]["apiLevel"]
            resolved == q.state = "resolved" /\ getApiLevel(q.value.text) # NaN
        IN  /\ deviceInfos[d].apiLevel # NaN
            /\ ~ resolved => deviceInfos[d].apiLevel = Number(0)

\* the whitespace-separated tokens of a line: its maximal runs of characters
\* that are no whitespace, from left to right
C25_Tokens(line) ==
    LET W      == WS \cup {NL}
        starts == {i \in 1..Len(line) : line[i] \notin W /\ (i = 1 \/ line[i - 1] \in W)}
        end(i) == CHOOSE j \in i..Len(line) :
                      /\ \A k \in i..j : line[k] \notin W
                      /\ (j = Len(line) \/ line[j + 1] \in W)
    IN  [n \in 1..Cardinality(starts) |->
            LET i == CHOOSE i \in starts : Cardinality({j \in starts : j < i}) = n - 1
            IN  SubSeq(line, i, end(i))]

\* the token lists of the lines that are to give a device: the lines, in
\* order, that are not the header and have two tokens or more
C25_DeviceLines(stdout) ==
    LET lines == split(stdout)
        kept  == SelectSeq(lines, LAMBDA l : /\ ~ startsWith(l, ListHeader)
                                             /\ Len(C25_Tokens(l)) >= 2)
    IN  [n \in 1..Len(kept) |-> C25_Tokens(kept[n])]

\* the value that the extra tokens give to a key: that of the last token
\* made of the key, one colon and a non-empty value; Null without one
C25_Value(tokens, key) ==
    LET pair(t) == /\ Len(t) > Len(key) + 1
                   /\ SubSeq(t, 1, Len(key) + 1) = key \o <<":">>
                   /\ \A k \in Len(key) + 2..Len(t) : t[k] # ":"
        hits    == {i \in 3..Len(tokens) : pair(tokens[i])}
    IN  IF hits = {} THEN Null
        ELSE LET t == tokens[CHOOSE i \in hits : \A j \in hits : j <= i]
             IN  Text(SubSeq(t, Len(key) + 2, Len(t)))

\* C25: the devices of a listing are, in the order of the lines, one per
\* line that is neither the header nor blank and has two tokens or more:
\* its serial is the first token, its state the second, and each of model,
\* product, device and transport id is what the well-formed key:value
\* tokens give it, the tokens without a colon or with an empty key or value
\* counting for nothing.
C25_OneDevicePerLine ==
    LET expected == C25_DeviceLines(listing)
    IN  /\ Len(devices) = Len(expected)
        /\ \A n \in 1..Len(expected) :
               /\ devices[n].serial = expected[n][1]
               /\ devices[n].state = expected[n][2]
               /\ devices[n].model = C25_Value(expected[n], <<"m", "o", "d", "e", "l">>)
               /\ devices[n].product = C25_Value(expected[n], <<"p", "r", "o", "d", "u", "c", "t">>)
               /\ devices[n].device = C25_Value(expected[n], <<"d", "e", "v", "i", "c", "e">>)
               /\ devices[n].transportId = C25_Value(expected[n], <<"t", "r", "a", "n", "s", "p", "o", "r", "t", "_", "i", "d">>)

\* the listing held the line of the emulator, with its tokens that are no
\* pairs, and a line of one token: one device, with its model and its
\* transport id
C25_Witness ==
    /\ listPc \in {"awaiting", "resolved"}
    /\ Len(split(listing)) = 5
    /\ split(listing)[2] = ListingLines[1]
    /\ split(listing)[3] = ListingLines[5]
    /\ Len(devices) = 1
    /\ devices[1].model = Text(<<"P", "x">>)
    /\ devices[1].transportId = Text(<<"1">>)
    /\ devices[1].isEmulator

====
